---- MODULE Spec2Model ----
(***************************************************************************)
(* Model of the Gameboard class of js-battleship (src/src/gameboard.js).   *)
(*                                                                         *)
(* The object graph is modelled as it is in JavaScript:                    *)
(*   - this.board is a container (an Array after construction, a plain     *)
(*     object after `this.board = backupBoard`) whose entries 0..N-1       *)
(*     reference row arrays;                                               *)
(*   - the row arrays live in a heap (rows) and hold references to Space   *)
(*     objects;                                                            *)
(*   - a Space object is either owned by the board (created by             *)
(*     `new Space()`) or is the i-th element of a ship's hits array; its   *)
(*     isHit flag lives in a heap (isHit) so that two cells referencing    *)
(*     the same Space share the flag.                                      *)
(* The grid is scaled from 15x15 to NxN; every 14 of the code is N-1.      *)
(***************************************************************************)
EXTENDS Integers, Sequences, FiniteSets, TLC

\* ---------------------------------------------------------------- bounds
\* Side of the grid (15 in the code: gameboard.js lines 12, 13, 55, 85, 86).
N == 3
\* receiveAttack on a not yet hit Space is explored while fewer than MaxHits
\* Spaces are hit.
MaxHits == 1
\* placeShip / autoPlaceShips are explored while fewer than MaxOccupied cells
\* are occupied.
MaxOccupied == 2
\* The callers of placeShip and receiveAttack pass coordinates 0..MaxInput
\* (findValidPosition samples the whole grid, canPlace is asked about every
\* position).
MaxInput == 1
\* Iterations of the search loop of findValidPosition (100000 in the code).
maxIterations == 2

\* ------------------------------------------------------------- values
undefined == "undefined"
Rows == 0 .. (N - 1)
Cols == 0 .. (N - 1)

\* The ships: one of length 1 (shipLengths of setUpPlayers), one of length 2
\* and one that is longer than the grid (the "length 16" ship of a 15x15 grid).
Ships == {"s1", "s2", "s3"}
length(ship) == CASE ship = "s1" -> 1 [] ship = "s2" -> 2 [] OTHER -> N + 1

\* A reference to a Space object.  parent is the Space's parent property;
\* id tells the objects with the same parent apart (the index in ship.hits
\* for a ship's Space, the cell of creation for a Space of the board).
ShipSpace(ship, i) == [parent |-> ship, id |-> i]
NewSpace(r, c) == [parent |-> undefined, id |-> r * N + c]
BoardSpaces == {NewSpace(r, c) : r \in Rows, c \in Cols}
hitsOf(ship) == {ShipSpace(ship, i) : i \in 0 .. (length(ship) - 1)}
AllSpaces == BoardSpaces \cup UNION {hitsOf(s) : s \in Ships}

\* Positions: what findValidPosition samples, and what a caller may pass to
\* canPlace (origins one step outside the grid on either side included).
Samples == [col : Cols, row : Rows, horizontal : BOOLEAN]
Positions == [col : (-1) .. N, row : (-1) .. N, horizontal : BOOLEAN]
Inputs == 0 .. MaxInput
InputPositions == [col : Inputs, row : Inputs, horizontal : BOOLEAN]
null == [col |-> 0 - 2, row |-> 0 - 2, horizontal |-> FALSE]

\* The ship lists handed to autoPlaceShips: the list of setUpPlayers, lists
\* that fit, and lists that fail at the first or at a later ship.
ShipLists ==
  {<<>>, <<"s1">>, <<"s1", "s2">>, <<"s3">>, <<"s1", "s3">>}

VARIABLES
  board,      \* this.board: [isArray, row] - the container and its row refs
  rows,       \* heap of the row arrays: row ref -> [Cols -> Space ref]
  isHit,      \* heap of the Space objects: Space ref -> isHit flag
  lastOp,     \* the last call and what it returned
  unchecked,  \* history: some placeShip since the board was last fresh was
              \* not accepted by canPlace just before
  accepted,   \* history: cells of the footprints that canPlace accepted and
              \* placeShip then wrote, since the board was last fresh
  placed,     \* history: for every cell, the ship of the last placeShip whose
              \* footprint covered it since the board was last fresh
  attacked    \* history: the cells receiveAttack was called for since the
              \* board was last fresh

vars == <<board, rows, isHit, lastOp, unchecked, accepted, placed, attacked>>

\* ------------------------------------------------------------ accessors
\* board[r][c] for in-grid indices.
At(bd, hp, r, c) == hp[bd.row[r]][c]
Occupied(bd, hp) ==
  {<<r, c>> \in Rows \X Cols : At(bd, hp, r, c).parent # undefined}
HitCount == Cardinality({sp \in AllSpaces : isHit[sp]})

\* a + (flag && i) of JavaScript: false counts as 0.
AndNum(flag, i) == IF flag THEN i ELSE 0

Footprint(position, ship) ==
  {<<position.row + AndNum(~position.horizontal, i),
     position.col + AndNum(position.horizontal, i)>> :
      i \in 0 .. (length(ship) - 1)}
InGrid(cells) == cells \subseteq (Rows \X Cols)

\* ---------------------------------------------------------- constructor
NewBoardRows == [r \in Rows |-> [c \in Cols |-> NewSpace(r, c)]]
NewBoard == [isArray |-> TRUE, row |-> [r \in Rows |-> r]]

NonePlaced == [cell \in Rows \X Cols |-> undefined]
Cover(gh, position, ship) ==
  [cell \in Rows \X Cols |->
    IF cell \in Footprint(position, ship) THEN ship ELSE gh[cell]]

NoOp ==
  [op |-> "constructor", ships |-> <<>>, ship |-> undefined,
   col |-> 0, row |-> 0, horizontal |-> FALSE, result |-> undefined,
   samples |-> 0, searched |-> <<>>]

Init ==
  /\ board = NewBoard
  /\ rows = NewBoardRows
  /\ isHit = [sp \in AllSpaces |-> FALSE]
  /\ lastOp = NoOp
  /\ unchecked = FALSE
  /\ accepted = {}
  /\ placed = NonePlaced
  /\ attacked = {}

\* ------------------------------------------------------------- placeShip
\* Mutant of placeShip: the two indices are swapped (board[col][row]).
placeShipTransposed(bd, hp, position, ship) ==
  [rid \in DOMAIN hp |->
    [c \in Cols |->
      IF \E i \in 0 .. (length(ship) - 1) :
           /\ position.col + AndNum(position.horizontal, i) \in Rows
           /\ bd.row[position.col + AndNum(position.horizontal, i)] = rid
           /\ c = position.row + AndNum(~position.horizontal, i)
      THEN ShipSpace(ship,
             CHOOSE i \in 0 .. (length(ship) - 1) :
               /\ position.col + AndNum(position.horizontal, i) \in Rows
               /\ bd.row[position.col + AndNum(position.horizontal, i)] = rid
               /\ c = position.row + AndNum(~position.horizontal, i))
      ELSE hp[rid][c]]]

\* ship.hits.forEach((space, i) =>
\*   this.board[row + (!horizontal && i)][col + (horizontal && i)] = space)
\* The writes go through the row references of the container into the heap.
placeShip(bd, hp, position, ship) ==
  [rid \in DOMAIN hp |->
    [c \in Cols |->
      IF \E i \in 0 .. (length(ship) - 1) :
           /\ position.row + AndNum(~position.horizontal, i) \in Rows
           /\ bd.row[position.row + AndNum(~position.horizontal, i)] = rid
           /\ c = position.col + AndNum(position.horizontal, i)
      THEN ShipSpace(ship,
             CHOOSE i \in 0 .. (length(ship) - 1) :
               /\ position.row + AndNum(~position.horizontal, i) \in Rows
               /\ bd.row[position.row + AndNum(~position.horizontal, i)] = rid
               /\ c = position.col + AndNum(position.horizontal, i))
      ELSE hp[rid][c]]]

\* -------------------------------------------------------------- canPlace
\* One property access board[r]<optRow>[c]<optCol>.parent, where optRow
\* (optCol) tells whether a `?.` guards the use of board[r] (of board[r][c]).
\* "throw" is the TypeError of reading a property of undefined.
Access(bd, hp, r, c, optRow, optCol) ==
  IF r \notin Rows THEN (IF optRow THEN "falsy" ELSE "throw")
  ELSE IF c \notin Cols THEN (IF optCol THEN "falsy" ELSE "throw")
  ELSE IF At(bd, hp, r, c).parent # undefined THEN "truthy" ELSE "falsy"

\* `if (test) return false; rest`: a truthy test returns false, a throwing
\* one ends the call with the TypeError, a falsy one goes on with rest.
IfReturnFalse(test, rest) ==
  IF test = "truthy" THEN "false"
  ELSE IF test = "throw" THEN "TypeError"
  ELSE rest

\* Mutant of OffsetChecks: the test of line 68 (the anti-diagonal) is missing.
OffsetChecksNoAntiDiagonal(bd, hp, r, c, offset, rest) ==
  IfReturnFalse(Access(bd, hp, r + offset, c, TRUE, FALSE),
  IfReturnFalse(Access(bd, hp, r, c + offset, FALSE, TRUE),
  IfReturnFalse(Access(bd, hp, r + offset, c + offset, TRUE, TRUE),
  rest)))

\* The four tests of the body of `for (let offset of [-1, 1])`, lines 65-68.
OffsetChecks(bd, hp, r, c, offset, rest) ==
  IfReturnFalse(Access(bd, hp, r + offset, c, TRUE, FALSE),
  IfReturnFalse(Access(bd, hp, r, c + offset, FALSE, TRUE),
  IfReturnFalse(Access(bd, hp, r + offset, c + offset, TRUE, TRUE),
  IfReturnFalse(Access(bd, hp, r + offset, c - offset, TRUE, TRUE),
  rest))))

\* Mutant of CellChecks: the loop over the offsets stops after offset -1.
CellChecksOneSide(bd, hp, r, c, rest) ==
  IfReturnFalse(Access(bd, hp, r, c, FALSE, FALSE),
  OffsetChecks(bd, hp, r, c, 0 - 1,
  rest))

\* The tests of one iteration of the loop over the ship's cells, lines 59-69,
\* in the order the code makes them.
CellChecks(bd, hp, r, c, rest) ==
  IfReturnFalse(Access(bd, hp, r, c, FALSE, FALSE),
  OffsetChecks(bd, hp, r, c, 0 - 1,
  OffsetChecks(bd, hp, r, c, 1,
  rest)))

\* for (let i = 0; i < ship.hits.length; i++) {...}; return true
RECURSIVE AllChecks(_, _, _, _, _)
AllChecks(bd, hp, position, ship, i) ==
  IF i >= length(ship) THEN "true"
  ELSE CellChecks(bd, hp,
                  position.row + AndNum(~position.horizontal, i),
                  position.col + AndNum(position.horizontal, i),
                  AllChecks(bd, hp, position, ship, i + 1))

\* Mutant of canPlace: the bounds test is off by one (> 13 for > 14).
canPlaceOffByOne(bd, hp, position, ship) ==
  LET maxRow == position.row + AndNum(~position.horizontal, length(ship) - 1)
      maxCol == position.col + AndNum(position.horizontal, length(ship) - 1)
  IN  IF maxCol > N - 2 \/ maxRow > N - 2 THEN "false"
      ELSE AllChecks(bd, hp, position, ship, 0)

\* canPlace(position, ship): "true", "false" or "TypeError" (thrown).
canPlace(bd, hp, position, ship) ==
  LET maxRow == position.row + AndNum(~position.horizontal, length(ship) - 1)
      maxCol == position.col + AndNum(position.horizontal, length(ship) - 1)
  IN  IF maxCol > N - 1 \/ maxRow > N - 1 THEN "false"
      ELSE AllChecks(bd, hp, position, ship, 0)

\* ----------------------------------------------------- findValidPosition
\* The values the call can return with i iterations of the loop done, over
\* every sequence of values of Math.random(): a sample that canPlace
\* accepts (one of valid) is returned; a rejected one leads to the next
\* iteration.  The board does not change during the loop, so the samples
\* that canPlace accepts are the same in every iteration.
\* A run of the loop is recorded with the value returned and the number of
\* samples drawn (calls of canPlace).
\* Mutant of search: the sample is returned without asking canPlace.
searchUnchecked(valid, i) ==
  {[position |-> p, samples |-> 1] : p \in Samples \cup {null}}

\* Mutant of search: the loop gives up one iteration early.
RECURSIVE searchShort(_, _)
searchShort(valid, i) ==
  IF i < maxIterations - 1
  THEN {[position |-> p, samples |-> i + 1] : p \in valid}
         \cup (IF valid # Samples THEN searchShort(valid, i + 1) ELSE {})
  ELSE {[position |-> null, samples |-> i]}

\* Mutant of search: the loop test is i <= maxIterations.
RECURSIVE searchOneMore(_, _)
searchOneMore(valid, i) ==
  IF i <= maxIterations
  THEN {[position |-> p, samples |-> i + 1] : p \in valid}
         \cup (IF valid # Samples THEN searchOneMore(valid, i + 1) ELSE {})
  ELSE {[position |-> null, samples |-> i]}

RECURSIVE search(_, _)
search(valid, i) ==
  IF i < maxIterations
  THEN {[position |-> p, samples |-> i + 1] : p \in valid}
         \cup (IF valid # Samples THEN search(valid, i + 1) ELSE {})
  ELSE {[position |-> null, samples |-> i]}

\* The runs of findValidPosition(ship), and the values it can return.
findValidPositionRuns(bd, hp, ship) ==
  search({p \in Samples : canPlace(bd, hp, p, ship) = "true"}, 0)

findValidPosition(bd, hp, ship) ==
  {run.position : run \in findValidPositionRuns(bd, hp, ship)}

\* -------------------------------------------------------- autoPlaceShips
\* const backupBoard = { ...this.board }: a plain object with the same row
\* references.
backupOf(bd) == [isArray |-> FALSE, row |-> bd.row]

\* The outcomes of the loop from the k-th ship on.  cells and gh carry the
\* history variables accepted and placed along the placeShip calls; searched
\* lists the ships findValidPosition was called for, in the order of the
\* calls.
RECURSIVE placeFrom(_, _, _, _, _, _, _, _)
placeFrom(bd, hp, backupBoard, ships, k, cells, gh, searched) ==
  IF k > Len(ships)
  THEN {[board |-> bd, rows |-> hp, result |-> "true", cells |-> cells,
         placed |-> gh, searched |-> searched]}
  ELSE UNION {
         IF position = null
         THEN {[board |-> backupBoard, rows |-> hp, result |-> "false",
                cells |-> cells, placed |-> gh,
                searched |-> Append(searched, ships[k])]}
         ELSE placeFrom(bd, placeShip(bd, hp, position, ships[k]), backupBoard,
                        ships, k + 1,
                        cells \cup Footprint(position, ships[k]),
                        Cover(gh, position, ships[k]),
                        Append(searched, ships[k]))
         : position \in findValidPosition(bd, hp, ships[k])}

autoPlaceShips(bd, hp, ships, gh) ==
  placeFrom(bd, hp, backupOf(bd), ships, 1, {}, gh, <<>>)

\* ------------------------------------------- receiveAttack and checkHit
\* Space.hit(): marks the Space as hit.
hit(ih, space) == [ih EXCEPT ![space] = TRUE]

\* Mutants of receiveAttack: the two indices are swapped.
receiveAttackHeapTransposed(bd, hp, ih, col, row) == hit(ih, At(bd, hp, col, row))
receiveAttackTransposed(bd, hp, col, row) == At(bd, hp, col, row).parent

\* this.board[row][col].hit(); return this.board[row][col].parent
receiveAttackHeap(bd, hp, ih, col, row) == hit(ih, At(bd, hp, row, col))
receiveAttack(bd, hp, col, row) == At(bd, hp, row, col).parent

\* return this.board[row][col].isHit
checkHit(bd, hp, ih, col, row) == ih[At(bd, hp, row, col)]

\* ------------------------------------------------------------ resetBoard
\* this.board.forEach(...) exists only while this.board is an Array.
resetBoardThrows(bd) == ~bd.isArray

\* this.board[i][j] = new Space() for every i, j.
resetBoardRows(bd, hp) ==
  [rid \in DOMAIN hp |->
    IF \E r \in Rows : bd.row[r] = rid
    THEN [c \in Cols |-> NewSpace(CHOOSE r \in Rows : bd.row[r] = rid, c)]
    ELSE hp[rid]]

\* A Space made by `new Space()` is not hit.
resetBoardHits(ih) ==
  [sp \in AllSpaces |-> IF sp \in BoardSpaces THEN FALSE ELSE ih[sp]]

\* --------------------------------------------------------------- actions
Call(op, result) == [NoOp EXCEPT !.op = op, !.result = result]

PlaceShip(position, ship) ==
  /\ InGrid(Footprint(position, ship))
  /\ Cardinality(Occupied(board, rows)) < MaxOccupied
  /\ rows' = placeShip(board, rows, position, ship)
  /\ lastOp' = [Call("placeShip", undefined) EXCEPT
                  !.ship = ship, !.col = position.col, !.row = position.row,
                  !.horizontal = position.horizontal]
  /\ unchecked' = (unchecked \/ canPlace(board, rows, position, ship) # "true")
  /\ accepted' = IF canPlace(board, rows, position, ship) = "true"
                 THEN accepted \cup Footprint(position, ship)
                 ELSE accepted
  /\ placed' = Cover(placed, position, ship)
  /\ UNCHANGED <<board, isHit, attacked>>

\* The queries record what they returned, for any of their arguments.
CanPlace ==
  /\ \E result \in {canPlace(board, rows, position, ship) :
                       position \in Positions, ship \in Ships} :
       lastOp' = Call("canPlace", result)
  /\ UNCHANGED <<board, rows, isHit, unchecked, accepted, placed, attacked>>

FindValidPosition(ship) ==
  /\ \E run \in {[result |-> IF r.position = null THEN "null" ELSE "position",
                    samples |-> r.samples] :
                      r \in findValidPositionRuns(board, rows, ship)} :
       lastOp' = [Call("findValidPosition", run.result) EXCEPT
                    !.ship = ship, !.samples = run.samples]
  /\ UNCHANGED <<board, rows, isHit, unchecked, accepted, placed, attacked>>

AutoPlaceShips(ships) ==
  /\ Cardinality(Occupied(board, rows)) < MaxOccupied
  /\ \E outcome \in autoPlaceShips(board, rows, ships, placed) :
       /\ board' = outcome.board
       /\ rows' = outcome.rows
       /\ lastOp' = [Call("autoPlaceShips", outcome.result) EXCEPT
                       !.ships = ships, !.searched = outcome.searched]
       /\ accepted' = accepted \cup outcome.cells
       /\ placed' = outcome.placed
  /\ UNCHANGED <<isHit, unchecked, attacked>>

ReceiveAttack(col, row) ==
  /\ checkHit(board, rows, isHit, col, row) \/ HitCount < MaxHits
  /\ isHit' = receiveAttackHeap(board, rows, isHit, col, row)
  /\ lastOp' = [Call("receiveAttack", receiveAttack(board, rows, col, row))
                EXCEPT !.col = col, !.row = row]
  /\ attacked' = attacked \cup {<<row, col>>}
  /\ UNCHANGED <<board, rows, unchecked, accepted, placed>>

\* Mutant of CheckHit: the query calls the Space's hit() as receiveAttack does.
CheckHitMarking ==
  \E col \in Cols, row \in Rows :
    /\ isHit' = receiveAttackHeap(board, rows, isHit, col, row)
    /\ lastOp' = Call("checkHit", "true")
    /\ UNCHANGED <<board, rows, unchecked, accepted, placed, attacked>>

CheckHit ==
  /\ \E result \in {IF checkHit(board, rows, isHit, col, row)
                      THEN "true" ELSE "false" : col \in Cols, row \in Rows} :
       lastOp' = Call("checkHit", result)
  /\ UNCHANGED <<board, rows, isHit, unchecked, accepted, placed, attacked>>

ResetBoard ==
  IF resetBoardThrows(board)
  THEN /\ lastOp' = Call("resetBoard", "TypeError")
       /\ UNCHANGED <<board, rows, isHit, unchecked, accepted, placed, attacked>>
  ELSE /\ rows' = resetBoardRows(board, rows)
       /\ isHit' = resetBoardHits(isHit)
       /\ lastOp' = Call("resetBoard", undefined)
       /\ unchecked' = FALSE
       /\ accepted' = {}
       /\ placed' = NonePlaced
       /\ attacked' = {}
       /\ UNCHANGED board

Next ==
  \/ \E position \in InputPositions, ship \in Ships :
       PlaceShip(position, ship)
  \/ CanPlace
  \/ \E ship \in Ships : FindValidPosition(ship)
  \/ \E ships \in ShipLists : AutoPlaceShips(ships)
  \/ \E col \in Inputs, row \in Inputs : ReceiveAttack(col, row)
  \/ CheckHit
  \/ ResetBoard

Spec == Init /\ [][Next]_vars

\* ================================================================ claims
Cells == Rows \X Cols
ParentAt(bd, hp, cell) == At(bd, hp, cell[1], cell[2]).parent
\* What a caller can see of the cells: occupant and hit flag.
CellsView(bd, hp, ih) ==
  [cell \in Cells |->
    <<ParentAt(bd, hp, cell), checkHit(bd, hp, ih, cell[2], cell[1])>>]
Abs(x) == IF x < 0 THEN 0 - x ELSE x
\* Same cell, or orthogonal or diagonal neighbours.
Touch(x, y) == Abs(x[1] - y[1]) <= 1 /\ Abs(x[2] - y[2]) <= 1
CellsOf(bd, hp, ship) == {cell \in Cells : ParentAt(bd, hp, cell) = ship}
\* cells is a horizontal or vertical run of len cells.
IsLine(cells, len) ==
  \E r \in Rows, c \in Cols :
    \/ cells = {<<r, c + i>> : i \in 0 .. (len - 1)}
    \/ cells = {<<r + i, c>> : i \in 0 .. (len - 1)}
\* The positions of C3: origin at or beyond the first row and column.
NonNegative == {position \in Positions : position.col >= 0 /\ position.row >= 0}
\* The three conditions of C3, stated on the cells.
Fits(position, ship) == InGrid(Footprint(position, ship))
FootprintFree(bd, hp, position, ship) ==
  \A cell \in Footprint(position, ship) \cap Cells :
    ParentAt(bd, hp, cell) = undefined
NeighboursFree(bd, hp, position, ship) ==
  \A cell \in Footprint(position, ship), other \in Cells :
    Touch(cell, other) => ParentAt(bd, hp, other) = undefined

\* C1 (as claimed): whenever autoPlaceShips returns false, the occupant and
\* the hit flag of every cell are what they were just before the call.
C1_FailedAutoPlaceRestores ==
  [][(lastOp'.op = "autoPlaceShips" /\ lastOp'.result = "false")
       => CellsView(board', rows', isHit') = CellsView(board, rows, isHit)]_vars

\* C2 (as claimed): after any sequence of operations resetBoard completes
\* without error and leaves every cell without occupant and not hit.
C2_ResetBoardFresh ==
  lastOp.op = "resetBoard" =>
    /\ lastOp.result # "TypeError"
    /\ \A cell \in Cells :
         /\ ParentAt(board, rows, cell) = undefined
         /\ ~checkHit(board, rows, isHit, cell[2], cell[1])

\* C3: for every position with 0 <= col,row and every ship, canPlace returns
\* true exactly when the footprint is within the grid, no footprint cell is
\* occupied and no in-grid neighbour of a footprint cell is occupied, and
\* false otherwise; a cell two or more rows and columns away from every
\* occupied cell is accepted for the ship of length 1.
C3_CanPlaceExact ==
  /\ \A position \in NonNegative, ship \in Ships :
       canPlace(board, rows, position, ship) =
         IF /\ Fits(position, ship)
            /\ FootprintFree(board, rows, position, ship)
            /\ NeighboursFree(board, rows, position, ship)
         THEN "true" ELSE "false"
  /\ \A cell \in Cells, horizontal \in BOOLEAN :
       (\A other \in Occupied(board, rows) :
           Abs(cell[1] - other[1]) >= 2 /\ Abs(cell[2] - other[2]) >= 2)
       => canPlace(board, rows,
                   [col |-> cell[2], row |-> cell[1], horizontal |-> horizontal],
                   "s1") = "true"

\* C3 witness: canPlace has just accepted a position on a board that holds
\* a ship, and there is a position it refuses for a diagonal neighbour alone.
C3_Witness ==
  /\ lastOp.op = "canPlace" /\ lastOp.result = "true"
  /\ Occupied(board, rows) # {}
  /\ \E position \in NonNegative :
       /\ Fits(position, "s1")
       /\ FootprintFree(board, rows, position, "s1")
       /\ \A cell \in Footprint(position, "s1"), other \in Occupied(board, rows) :
            Touch(cell, other) => (cell[1] # other[1] /\ cell[2] # other[2])
       /\ canPlace(board, rows, position, "s1") = "false"

\* C4: while every placeShip was accepted by canPlace just before, no two
\* distinct ships occupy the same cell or neighbouring cells.
C4_NoTouch ==
  ~unchecked =>
    \A x \in Occupied(board, rows), y \in Occupied(board, rows) :
      ParentAt(board, rows, x) # ParentAt(board, rows, y) => ~Touch(x, y)

\* C4 witness: two distinct ships are on the board, all placements accepted.
C4_Witness ==
  /\ ~unchecked
  /\ CellsOf(board, rows, "s1") # {}
  /\ CellsOf(board, rows, "s2") # {}

AllPlaced(ships, before, bd, hp) ==
  \A k \in 1 .. Len(ships) :
    LET cells == CellsOf(bd, hp, ships[k])
    IN  /\ Cardinality(cells) = length(ships[k])
        /\ IsLine(cells, length(ships[k]))
        /\ \A cell \in cells, old \in before : ~Touch(cell, old)
        /\ \A j \in 1 .. Len(ships) :
             j # k => \A cell \in cells, other \in CellsOf(bd, hp, ships[j]) :
                        ~Touch(cell, other)

\* C6 (as claimed): when autoPlaceShips(ships) returns true, each ship of the
\* list occupies exactly its length of cells in one line, away from the
\* cells occupied before and from the other ships of the list.
C6_AutoPlaced ==
  [][(lastOp'.op = "autoPlaceShips" /\ lastOp'.result = "true")
       => AllPlaced(lastOp'.ships, Occupied(board, rows) , board', rows')]_vars

\* C6 (amended): the same, for a list none of whose ships occupies a cell
\* before the call.
C6_AutoPlacedNew ==
  [][(/\ lastOp'.op = "autoPlaceShips" /\ lastOp'.result = "true"
      /\ \A k \in 1 .. Len(lastOp'.ships) :
           CellsOf(board, rows, lastOp'.ships[k]) = {})
       => AllPlaced(lastOp'.ships, Occupied(board, rows), board', rows')]_vars

\* C6 witness: autoPlaceShips has just returned true for the list of the
\* ships of length 1 and 2, and each is on exactly its length of cells.
C6_Witness ==
  /\ lastOp.op = "autoPlaceShips" /\ lastOp.result = "true"
  /\ lastOp.ships = <<"s1", "s2">>
  /\ Cardinality(CellsOf(board, rows, "s1")) = 1
  /\ Cardinality(CellsOf(board, rows, "s2")) = 2

C8_AttackIdempotent ==
  lastOp.op = "receiveAttack" =>
    /\ checkHit(board, rows, isHit, lastOp.col, lastOp.row)
    /\ receiveAttackHeap(board, rows, isHit, lastOp.col, lastOp.row) = isHit
    /\ receiveAttack(board, rows, lastOp.col, lastOp.row) = lastOp.result
    /\ placed[<<lastOp.row, lastOp.col>>] = undefined
         => lastOp.result = undefined

\* C8 witness: receiveAttack has just hit a ship off the diagonal.
C8_Witness ==
  /\ lastOp.op = "receiveAttack"
  /\ lastOp.result # undefined
  /\ lastOp.col # lastOp.row

\* C9 (as claimed): for every board state, ship and position, origins
\* outside the grid included, canPlace returns true or false and
\* findValidPosition returns a position or null; neither throws.
C9_NeverThrows ==
  /\ \A position \in Positions, ship \in Ships :
       canPlace(board, rows, position, ship) \in {"true", "false"}
  /\ \A ship \in Ships :
       findValidPosition(board, rows, ship) \subseteq (Samples \cup {null})

\* C10: on an empty board findValidPosition never returns null for the ship
\* of length 1, whatever the random source yields.
C10_EmptyBoardFinds ==
  Occupied(board, rows) = {} => null \notin findValidPosition(board, rows, "s1")

\* C10 witness: findValidPosition has just returned a position for the ship
\* of length 1 on an empty board.
C10_Witness ==
  /\ Occupied(board, rows) = {}
  /\ lastOp.op = "findValidPosition" /\ lastOp.ship = "s1"
  /\ lastOp.result = "position"

\* C11: canPlace, checkHit and findValidPosition are pure queries: a call
\* leaves the occupant and the hit flag of every cell and the hit state of
\* every ship segment as they were, whatever it returns (or throws).
C11_QueriesPure ==
  [][lastOp'.op \in {"canPlace", "checkHit", "findValidPosition"}
       => /\ CellsView(board', rows', isHit') = CellsView(board, rows, isHit)
          /\ \A ship \in Ships : \A space \in hitsOf(ship) :
               isHit'[space] = isHit[space]]_vars

\* C11 witness: canPlace has just thrown on a board that holds a ship with a
\* hit segment.
C11_Witness ==
  /\ lastOp.op = "canPlace" /\ lastOp.result = "TypeError"
  /\ \E cell \in Occupied(board, rows) :
       checkHit(board, rows, isHit, cell[2], cell[1])

\* C12: every position findValidPosition returns is in the grid and accepted
\* by canPlace on the board as it is, after rejected samples only (it is the
\* first accepted sample); null is returned only after maxIterations samples
\* that canPlace all rejected.
C12_FirstAcceptedOrExhausted ==
  \A ship \in Ships : \A run \in findValidPositionRuns(board, rows, ship) :
    IF run.position # null
    THEN /\ run.position.col \in 0 .. (N - 1)
         /\ run.position.row \in 0 .. (N - 1)
         /\ canPlace(board, rows, run.position, ship) = "true"
         /\ run.samples \in 1 .. maxIterations
         /\ run.samples > 1 =>
              \E p \in Samples : canPlace(board, rows, p, ship) # "true"
    ELSE /\ run.samples = maxIterations
         /\ \E p \in Samples : canPlace(board, rows, p, ship) # "true"

\* C12 witness: findValidPosition has just returned null for the ship of
\* length 2, which fits the grid, after maxIterations samples.
C12_Witness ==
  /\ lastOp.op = "findValidPosition" /\ lastOp.ship = "s2"
  /\ lastOp.result = "null" /\ lastOp.samples = maxIterations

\* C13: autoPlaceShips ends for every ship list: every search draws at most
\* maxIterations samples, the ships searched for are the ships of the list
\* in order, each once, up to the first whose search returned null, and all
\* of them when the call returns true.
C13_AutoPlaceBounded ==
  /\ \A ship \in Ships : \A run \in findValidPositionRuns(board, rows, ship) :
       run.samples \in 1 .. maxIterations
  /\ lastOp.op = "autoPlaceShips" =>
       /\ Len(lastOp.searched) <= Len(lastOp.ships)
       /\ lastOp.searched = SubSeq(lastOp.ships, 1, Len(lastOp.searched))
       /\ lastOp.result = "true" => lastOp.searched = lastOp.ships
       /\ lastOp.result = "false" =>
            /\ Len(lastOp.searched) >= 1
            /\ \A k \in 1 .. (Len(lastOp.searched) - 1) :
                 CellsOf(board, rows, lastOp.searched[k]) # {}

\* C13 witness: autoPlaceShips has just returned false at the first of two
\* ships, without searching for the second.
C13_Witness ==
  /\ lastOp.op = "autoPlaceShips" /\ lastOp.result = "false"
  /\ lastOp.ships = <<"s1", "s3">>
  /\ lastOp.searched = <<"s1">>

\* C14 (as claimed): in every reachable state checkHit(c,r) is true exactly
\* when receiveAttack(c,r) has been called since the board was constructed
\* or last reset; placing a ship neither sets nor clears a hit flag.
C14_HitIffAttacked ==
  \A col \in Cols, row \in Rows :
    checkHit(board, rows, isHit, col, row) <=> (<<row, col>> \in attacked)

\* The footprint of the placeShip call that lastOp records.
LastPosition(op) == [col |-> op.col, row |-> op.row, horizontal |-> op.horizontal]

\* C15: placeShip with an in-grid footprint makes the ship the occupant of
\* the cells of the footprint, leaves the occupant of every other cell as it
\* was, and returns no value.
C15_PlaceShipFrame ==
  [][lastOp'.op = "placeShip"
       => /\ lastOp'.result = undefined
          /\ Cardinality(Footprint(LastPosition(lastOp'), lastOp'.ship))
               = length(lastOp'.ship)
          /\ \A cell \in Cells :
               ParentAt(board', rows', cell) =
                 IF cell \in Footprint(LastPosition(lastOp'), lastOp'.ship)
                 THEN lastOp'.ship
                 ELSE ParentAt(board, rows, cell)]_vars

\* C15 witness: the ship of length 2 has just been placed off the diagonal
\* on a board that holds the ship of length 1 on another cell.
C15_Witness ==
  /\ lastOp.op = "placeShip" /\ lastOp.ship = "s2"
  /\ lastOp.col # lastOp.row
  /\ CellsOf(board, rows, "s1") # {}

\* C16 (as claimed): receiveAttack(c,r) changes nothing but the hit flag of
\* the cell (c,r): every occupant and the hit flag of every other cell are
\* as before the call.
C16_AttackFrame ==
  [][lastOp'.op = "receiveAttack"
       => \A cell \in Cells :
            /\ ParentAt(board', rows', cell) = ParentAt(board, rows, cell)
            /\ cell # <<lastOp'.row, lastOp'.col>> =>
                 (checkHit(board', rows', isHit', cell[2], cell[1])
                    <=> checkHit(board, rows, isHit, cell[2], cell[1]))]_vars

====
